---- MODULE Spec2Model ----
(***************************************************************************)
(* Model of the lead-capture form (src/src/components/LeadCaptureForm.tsx). *)
(*                                                                         *)
(* The component keeps four pieces of local React state (formData,         *)
(* validationErrors, fieldStates, isSubmitting) and reads/writes the       *)
(* session store (submitted, sessionLeads).  One step of the model is one  *)
(* event handler run to its next await, or the continuation of handleSubmit *)
(* after the awaited 'send-confirmation' call settles.  React applies the  *)
(* state updates of one handler run together, before the next event.       *)
(*                                                                         *)
(* Text is modelled as a sequence of one-character strings, so that trim(), *)
(* length and the e-mail pattern are computed, not assumed.                *)
(***************************************************************************)
EXTENDS Naturals, Sequences, FiniteSets

VARIABLES
    formData,          \* useState: [name, email, industry] (line 12)
    validationErrors,  \* useState: sequence of [field, message] (line 13)
    fieldStates,       \* useState: per field [touched, valid] (lines 14-18)
    isSubmitting,      \* useState: BOOLEAN (line 19)
    submitted,         \* session store: the success flag (line 20)
    sessionLeads,      \* session store: the leads of this page load (line 20)
    inFlight,          \* 'send-confirmation' calls awaited by handleSubmit,
                       \* each with the formData its closure captured
    invocations,       \* requests the remote function received since page load
    validSubmits,      \* handleSubmit runs that passed validation since page load
    successes,         \* handleSubmit runs that reached the success flow
    lastOp             \* the handler (or continuation) that ran last

vars == <<formData, validationErrors, fieldStates, isSubmitting, submitted,
          sessionLeads, inFlight, invocations, validSubmits, successes, lastOp>>

-----------------------------------------------------------------------------
(* Bounds of the model. *)

\* handleSubmit runs that pass validation, per page load.
MaxSubmissions == 2

\* Clock readings new Date() can return.
MaxTime == 2

-----------------------------------------------------------------------------
(* Text. *)

Fields == <<"name", "email", "industry">>

FieldSet == {Fields[i] : i \in 1..Len(Fields)}

EmptyStr == <<>>

\* What the user can type into the name input.
NameInputs ==
    { <<>>, <<" ">>, <<"A">>, <<" ", "A", " ">>, <<"A", "l">> }

\* What the user can type into the e-mail input.
EmailInputs ==
    { <<>>, <<"a">>, <<"a", "@", "b">>, <<"a", "@", "b", ".", "c">>,
      <<"a", " ", "@", "b", ".", "c">> }

\* The SelectItem values offered (two of the eight).
IndustryOptions == { <<"t", "e", "c", "h">>, <<"o", "t", "h", "e", "r">> }

InputsOf(field) ==
    CASE field = "name" -> NameInputs
      [] field = "email" -> EmailInputs
      [] field = "industry" -> IndustryOptions

IsSpace(c) == c = " "

RECURSIVE TrimStart(_)
TrimStart(s) ==
    IF s = <<>> THEN s
    ELSE IF IsSpace(Head(s)) THEN TrimStart(Tail(s)) ELSE s

RECURSIVE TrimEnd(_)
TrimEnd(s) ==
    IF s = <<>> THEN s
    ELSE IF IsSpace(s[Len(s)]) THEN TrimEnd(SubSeq(s, 1, Len(s) - 1)) ELSE s

\* String.prototype.trim
Trim(s) == TrimEnd(TrimStart(s))

-----------------------------------------------------------------------------
(* @/lib/validation: validateName, validateEmail, validateLeadForm.        *)

\* A character the e-mail pattern's [^\s@] accepts.
IsPlainChar(c) == ~IsSpace(c) /\ c # "@"

IsPlain(s) == s # <<>> /\ \A k \in 1..Len(s) : IsPlainChar(s[k])

\* name.trim().length >= 2
validateName(name) == Len(Trim(name)) >= 2

\* /^[^\s@]+@[^\s@]+\.[^\s@]+$/.test(email)
validateEmail(email) ==
    \E i \in 1..Len(email), j \in 1..Len(email) :
        /\ i < j
        /\ email[i] = "@"
        /\ email[j] = "."
        /\ IsPlain(SubSeq(email, 1, i - 1))
        /\ IsPlain(SubSeq(email, i + 1, j - 1))
        /\ IsPlain(SubSeq(email, j + 1, Len(email)))

Error(field, message) == [field |-> field, message |-> message]

\* The rule validateField applies to one field: isValid and errorMessage.
validateField(field, value) ==
    CASE field = "name" ->
            IF Trim(value) = <<>>
            THEN [isValid |-> FALSE, errorMessage |-> "Name is required"]
            ELSE IF ~validateName(value)
            THEN [isValid |-> FALSE,
                  errorMessage |-> "Name must be at least 2 characters"]
            ELSE [isValid |-> TRUE, errorMessage |-> ""]
      [] field = "email" ->
            IF Trim(value) = <<>>
            THEN [isValid |-> FALSE, errorMessage |-> "Email is required"]
            ELSE IF ~validateEmail(value)
            THEN [isValid |-> FALSE,
                  errorMessage |-> "Please enter a valid email address"]
            ELSE [isValid |-> TRUE, errorMessage |-> ""]
      [] field = "industry" ->
            IF Trim(value) = <<>>
            THEN [isValid |-> FALSE,
                  errorMessage |-> "Please select your industry"]
            ELSE [isValid |-> TRUE, errorMessage |-> ""]
      [] OTHER -> [isValid |-> FALSE, errorMessage |-> ""]

RECURSIVE FormErrors(_, _)
FormErrors(data, k) ==
    IF k > Len(Fields) THEN <<>>
    ELSE LET f == Fields[k]
             r == validateField(f, data[f])
         IN (IF r.isValid THEN <<>> ELSE <<Error(f, r.errorMessage)>>)
            \o FormErrors(data, k + 1)

\* validateLeadForm(data): the errors of the three fields, in field order.
validateLeadForm(data) == FormErrors(data, 1)

-----------------------------------------------------------------------------
(* @/lib/lead-store: useLeadStore (submitted, setSubmitted, addLead,       *)
(* sessionLeads).  In memory, not persisted.                               *)

InitialSessionLeads == <<>>

InitialSubmitted == FALSE

addLead(leads, lead) == Append(leads, lead)

setSubmitted(value) == value

-----------------------------------------------------------------------------
(* The component's initial state.                                          *)

EmptyForm == [name |-> EmptyStr, email |-> EmptyStr, industry |-> EmptyStr]

FieldState(touched) == [touched |-> touched, valid |-> FALSE]

Untouched == [f \in FieldSet |-> FieldState(FALSE)]

AllTouched == [f \in FieldSet |-> FieldState(TRUE)]

\* What ran last: the handler, the field it was given, and, for a settled
\* call, whether the form no longer held what the call was started with.
Op(op, field) == [op |-> op, field |-> field, edited |-> FALSE]

Timestamps == 1..MaxTime

\* The strings a form field can hold.
Texts == {EmptyStr} \cup NameInputs \cup EmailInputs \cup IndustryOptions

\* The error messages of validateField.
Messages ==
    {"Name is required", "Name must be at least 2 characters",
     "Email is required", "Please enter a valid email address",
     "Please select your industry"}

\* The shape of the component's state and of the store.
TypeOK ==
    /\ formData \in [name : Texts, email : Texts, industry : Texts]
    /\ \A k \in 1..Len(validationErrors) :
           validationErrors[k] \in [field : FieldSet, message : Messages]
    /\ fieldStates \in [FieldSet -> [touched : BOOLEAN, valid : {FALSE}]]
    /\ isSubmitting \in BOOLEAN
    /\ submitted \in BOOLEAN
    /\ \A k \in 1..Len(sessionLeads) :
           sessionLeads[k] \in [name : Texts, email : Texts, industry : Texts,
                                submitted_at : Timestamps]
    /\ \A k \in 1..Len(inFlight) :
           /\ inFlight[k].body = inFlight[k].closure
           /\ validateLeadForm(inFlight[k].body) = <<>>
    /\ invocations \in 0..MaxSubmissions
    /\ validSubmits \in 0..MaxSubmissions
    /\ successes \in 0..MaxSubmissions

Init ==
    /\ formData = EmptyForm
    /\ validationErrors = <<>>
    /\ fieldStates = Untouched
    /\ isSubmitting = FALSE
    /\ submitted = InitialSubmitted
    /\ sessionLeads = InitialSessionLeads
    /\ inFlight = <<>>
    /\ invocations = 0
    /\ validSubmits = 0
    /\ successes = 0
    /\ lastOp = Op("load", "")

-----------------------------------------------------------------------------
(* handleInputChange(field, value).                                        *)

\* prev.filter(error => error.field !== field)
RemoveFieldError(prev, field) ==
    LET Keep(e) == e.field # field IN SelectSeq(prev, Keep)

\* prev.find(error => error.field === field)
HasFieldError(errors, field) ==
    \E k \in 1..Len(errors) : errors[k].field = field

\* Mutant: a new entry is appended whether or not the field has one.
UpsertFieldErrorAppends(prev, field, errorMessage) ==
    Append(prev, Error(field, errorMessage))

\* Update the message of the field's entries, or append a new entry.
UpsertFieldError(prev, field, errorMessage) ==
    IF HasFieldError(prev, field)
    THEN [k \in 1..Len(prev) |->
             IF prev[k].field = field
             THEN [prev[k] EXCEPT !.message = errorMessage]
             ELSE prev[k]]
    ELSE Append(prev, Error(field, errorMessage))

\* Mutant: a value that became valid keeps the field's old error.
RevalidateFieldKeepsError(prev, field, value) ==
    LET r == validateField(field, value)
    IN  IF r.isValid THEN prev
        ELSE IF r.errorMessage # "" THEN UpsertFieldError(prev, field, r.errorMessage)
        ELSE prev

\* The real-time validation of handleInputChange.
RevalidateField(prev, field, value) ==
    LET r == validateField(field, value)
    IN  IF r.isValid THEN RemoveFieldError(prev, field)
        ELSE IF r.errorMessage # "" THEN UpsertFieldError(prev, field, r.errorMessage)
        ELSE prev

\* The inputs are rendered in the form view only.
FormViewShown == ~submitted

HandleInputChange(field, value) ==
    /\ FormViewShown
    /\ formData' = [formData EXCEPT ![field] = value]
    /\ fieldStates' = [fieldStates EXCEPT ![field].touched = TRUE]
    /\ validationErrors' = RevalidateField(validationErrors, field, value)
    /\ lastOp' = Op("input", field)
    /\ UNCHANGED <<isSubmitting, submitted, sessionLeads, inFlight,
                   invocations, validSubmits, successes>>

-----------------------------------------------------------------------------
(* handleSubmit, up to its await.                                          *)

\* Mutant: the button is disabled by validation errors only.
SubmitDisabledByErrorsOnly == Len(validationErrors) > 0

\* The submit button: disabled={isSubmitting || validationErrors.length > 0}.
SubmitDisabled == isSubmitting \/ Len(validationErrors) > 0

\* The body of the 'send-confirmation' request.
Body(data) ==
    [name |-> data.name, email |-> data.email, industry |-> data.industry]

\* Mutant: the request block is duplicated, as in the README's bug no. 1.
SendConfirmationCallsTwice(data) ==
    << [body |-> Body(data), closure |-> data],
       [body |-> Body(data), closure |-> data] >>

\* The supabase.functions.invoke calls one run of handleSubmit makes: each
\* with the request body and the formData the awaiting closure holds.
SendConfirmationCalls(data) == << [body |-> Body(data), closure |-> data] >>

\* Mutant: a form with one error left is still submitted.
PassesValidationLoose(errors) == Len(errors) <= 1

\* errors.length === 0
PassesValidation(errors) == Len(errors) = 0

HandleSubmit ==
    /\ FormViewShown
    /\ ~SubmitDisabled
    /\ LET errors == validateLeadForm(formData)
           calls == SendConfirmationCalls(formData)
       IN  /\ fieldStates' = AllTouched
           /\ validationErrors' = errors
           /\ IF PassesValidation(errors)
              THEN /\ validSubmits < MaxSubmissions
                   /\ isSubmitting' = TRUE
                   /\ inFlight' = inFlight \o calls
                   /\ invocations' = invocations + Len(calls)
                   /\ validSubmits' = validSubmits + 1
                   /\ lastOp' = Op("submitValid", "")
              ELSE /\ lastOp' = Op("submitInvalid", "")
                   /\ UNCHANGED <<isSubmitting, inFlight, invocations, validSubmits>>
    /\ UNCHANGED <<formData, submitted, sessionLeads, successes>>

-----------------------------------------------------------------------------
(* handleSubmit, after the awaited call settles.                           *)

RemoveAt(s, i) == SubSeq(s, 1, i - 1) \o SubSeq(s, i + 1, Len(s))

\* const lead = { name, email, industry, submitted_at }
MakeLead(data, now) ==
    [name |-> data.name, email |-> data.email, industry |-> data.industry,
     submitted_at |-> now]

\* Mutant: the lead is never handed to the store (README's bug no. 3).
SuccessFlowWithoutAddLead(call) ==
    /\ sessionLeads' = sessionLeads
    /\ submitted' = setSubmitted(TRUE)
    /\ formData' = EmptyForm
    /\ validationErrors' = <<>>
    /\ fieldStates' = Untouched
    /\ successes' = successes + 1

\* Mutant: the lead is built from the form as it is when the call returns,
\* not from the formData the handler's closure holds.
SuccessFlowFromCurrentForm(call) ==
    \E now \in Timestamps :
        /\ sessionLeads' = addLead(sessionLeads, MakeLead(formData, now))
        /\ submitted' = setSubmitted(TRUE)
        /\ formData' = EmptyForm
        /\ validationErrors' = <<>>
        /\ fieldStates' = Untouched
        /\ successes' = successes + 1

\* No emailError: addLead, setSubmitted(true), and the form is cleared.
SuccessFlow(call) ==
    \E now \in Timestamps :
        /\ sessionLeads' = addLead(sessionLeads, MakeLead(call.closure, now))
        /\ submitted' = setSubmitted(TRUE)
        /\ formData' = EmptyForm
        /\ validationErrors' = <<>>
        /\ fieldStates' = Untouched
        /\ successes' = successes + 1

\* Mutant: the return is missing, so the success flow follows the error toast.
EmailErrorBranchFallsThrough(call) == SuccessFlow(call)

\* if (emailError) { ...toast...; return; }
EmailErrorBranch(call) ==
    UNCHANGED <<sessionLeads, submitted, formData, validationErrors,
                fieldStates, successes>>

\* catch (error) { ...toast... }
CatchBlock(call) ==
    UNCHANGED <<sessionLeads, submitted, formData, validationErrors,
                fieldStates, successes>>

\* finally { setIsSubmitting(false); }
Finally == isSubmitting' = FALSE

\* The awaited call number i settles and its continuation runs.
Settles(i, outcome) ==
    /\ i \in 1..Len(inFlight)
    /\ inFlight' = RemoveAt(inFlight, i)
    /\ lastOp' = [Op(outcome, "") EXCEPT
                       !.edited = (formData # inFlight[i].closure)]
    /\ UNCHANGED <<invocations, validSubmits>>

InvokeReturnsOk(i) ==
    /\ Settles(i, "ok")
    /\ SuccessFlow(inFlight[i])
    /\ Finally

\* Mutant: setIsSubmitting(false) sits at the end of the try block, which the
\* early return skips.
InvokeReturnsErrorSkipsReset(i) ==
    /\ Settles(i, "error")
    /\ EmailErrorBranch(inFlight[i])
    /\ UNCHANGED isSubmitting

InvokeReturnsError(i) ==
    /\ Settles(i, "error")
    /\ EmailErrorBranch(inFlight[i])
    /\ Finally

\* Mutant: setSubmitted(true) runs before the call's outcome is known.
InvokeThrowsAfterMarkingSubmitted(i) ==
    /\ Settles(i, "throw")
    /\ submitted' = setSubmitted(TRUE)
    /\ UNCHANGED <<sessionLeads, formData, validationErrors, fieldStates,
                   successes>>
    /\ Finally

InvokeThrows(i) ==
    /\ Settles(i, "throw")
    /\ CatchBlock(inFlight[i])
    /\ Finally

-----------------------------------------------------------------------------
(* resetForm ("Submit Another Lead", shown in the success view), and the   *)
(* page being loaded again.                                                *)

\* The success view: "You're #{sessionLeads.length} in this session".
DisplayedPosition == Len(sessionLeads)

\* Mutant: resetForm also empties the store's list.
ResetFormClearsLeads ==
    /\ submitted
    /\ formData' = EmptyForm
    /\ validationErrors' = <<>>
    /\ fieldStates' = Untouched
    /\ submitted' = setSubmitted(FALSE)
    /\ sessionLeads' = <<>>
    /\ lastOp' = Op("reset", "")
    /\ UNCHANGED <<isSubmitting, inFlight, invocations, validSubmits, successes>>

ResetForm ==
    /\ submitted
    /\ formData' = EmptyForm
    /\ validationErrors' = <<>>
    /\ fieldStates' = Untouched
    /\ submitted' = setSubmitted(FALSE)
    /\ lastOp' = Op("reset", "")
    /\ UNCHANGED <<isSubmitting, sessionLeads, inFlight, invocations,
                   validSubmits, successes>>

\* The component mounts: the useState initial values and the mount effect.
Mount ==
    /\ formData' = EmptyForm
    /\ validationErrors' = <<>>
    /\ fieldStates' = Untouched
    /\ isSubmitting' = FALSE
    /\ submitted' = setSubmitted(FALSE)

\* A page refresh: the store is created anew, the pending continuations are
\* gone with the old page, and the component mounts.
PageReload ==
    /\ sessionLeads' = InitialSessionLeads
    /\ inFlight' = <<>>
    /\ invocations' = 0
    /\ validSubmits' = 0
    /\ successes' = 0
    /\ Mount
    /\ lastOp' = Op("load", "")

-----------------------------------------------------------------------------

Next ==
    \/ \E field \in FieldSet : \E value \in InputsOf(field) :
           HandleInputChange(field, value)
    \/ HandleSubmit
    \/ \E i \in 1..Len(inFlight) : InvokeReturnsOk(i)
    \/ \E i \in 1..Len(inFlight) : InvokeReturnsError(i)
    \/ \E i \in 1..Len(inFlight) : InvokeThrows(i)
    \/ ResetForm
    \/ PageReload

Spec == Init /\ [][Next]_vars

\* 'Provided the call completes': an awaited call settles in the end.
CallSettles ==
    \E i \in 1..Len(inFlight) :
        InvokeReturnsOk(i) \/ InvokeReturnsError(i) \/ InvokeThrows(i)

FairSpec == Spec /\ WF_vars(CallSettles)

-----------------------------------------------------------------------------
(* Properties.                                                             *)

IsPrefix(s, t) == Len(s) <= Len(t) /\ SubSeq(t, 1, Len(s)) = s

\* The step is a run of handleSubmit.
IsSubmitStep == lastOp'.op \in {"submitValid", "submitInvalid"}

\* The step is the continuation of handleSubmit after a failed call.
IsFailureStep == lastOp'.op \in {"error", "throw"}

\* C1: every run of handleSubmit whose form data passes validateLeadForm
\* invokes 'send-confirmation' exactly once (one more request received, one
\* more call awaited), and no other handler invokes it.
C1_OneInvocationPerValidSubmit ==
    [][ /\ (IsSubmitStep /\ validateLeadForm(formData) = <<>>)
            => /\ invocations' = invocations + 1
               /\ Len(inFlight') = Len(inFlight) + 1
        /\ (~IsSubmitStep /\ lastOp'.op # "load")
            => invocations' = invocations ]_vars

C1_Witness ==
    /\ lastOp.op = "submitValid"
    /\ invocations = 2
    /\ Len(sessionLeads) = 1

\* C2: a run of handleSubmit on form data with at least one validation error
\* invokes nothing, adds no lead, leaves submitted and isSubmitting false, and
\* sets validationErrors to exactly the errors validateLeadForm returned.
C2_InvalidSubmitHasNoEffect ==
    [][ (IsSubmitStep /\ validateLeadForm(formData) # <<>>)
            => /\ invocations' = invocations
               /\ inFlight' = inFlight
               /\ sessionLeads' = sessionLeads
               /\ ~submitted /\ ~submitted'
               /\ ~isSubmitting /\ ~isSubmitting'
               /\ validationErrors' = validateLeadForm(formData) ]_vars

C2_Witness ==
    /\ lastOp.op = "submitInvalid"
    /\ Len(validationErrors) = 2
    /\ ~HasFieldError(validationErrors, "name")
    /\ Len(sessionLeads) = 1

\* C3: when the call of a valid submission returns without an error, exactly
\* one lead with the fields name, email, industry and a timestamp is appended
\* to the session store and submitted becomes true.
C3_SuccessAppendsOneLead ==
    [][ lastOp'.op = "ok"
            => /\ Len(sessionLeads') = Len(sessionLeads) + 1
               /\ IsPrefix(sessionLeads, sessionLeads')
               /\ LET lead == sessionLeads'[Len(sessionLeads')]
                  IN  /\ DOMAIN lead = {"name", "email", "industry", "submitted_at"}
                      /\ validateLeadForm(lead) = <<>>
                      /\ lead.submitted_at \in Timestamps
               /\ submitted' ]_vars

C3_Witness ==
    /\ lastOp.op = "ok"
    /\ Len(sessionLeads) = 2
    /\ submitted

\* C4: when the call returns an error value or throws, the store is
\* unchanged, submitted stays false and formData is not cleared.
C4_FailureHasNoSuccessEffect ==
    [][ IsFailureStep
            => /\ sessionLeads' = sessionLeads
               /\ ~submitted /\ ~submitted'
               /\ formData' = formData ]_vars

C4_Witness ==
    /\ lastOp.op = "throw"
    /\ validateLeadForm(formData) = <<>>
    /\ Len(sessionLeads) = 1
    /\ ~submitted

C6_LeadsSurviveRefresh ==
    [][ lastOp'.op = "load"
            => \A k \in 1..Len(sessionLeads) :
                   \E n \in 1..Len(sessionLeads') :
                       sessionLeads'[n] = sessionLeads[k] ]_vars

\* C7: submitted is false when the component mounts, turns true only through
\* a submission whose call returned without error, and turns false again only
\* through resetForm or a new mount of the form.
C7_TwoStateToggle ==
    /\ ~submitted
    /\ [][ /\ lastOp'.op = "load" => ~submitted'
           /\ (~submitted /\ submitted') => lastOp'.op = "ok"
           /\ (submitted /\ ~submitted') => lastOp'.op \in {"reset", "load"}
       ]_vars

C7_Witness ==
    /\ lastOp.op = "ok"
    /\ submitted
    /\ successes = 2

\* The entries of errors for one field, in order.
ErrorsOf(errors, field) ==
    LET IsOf(e) == e.field = field IN SelectSeq(errors, IsOf)

\* C8: after handleInputChange(field, value), validationErrors has an error
\* for the field iff validateField judges the value invalid, that error
\* carries validateField's message, the field is touched, and the values and
\* errors of the other two fields are as before.
C8_RealTimeValidation ==
    [][ lastOp'.op = "input"
            => LET f == lastOp'.field
                   r == validateField(f, formData'[f])
               IN  /\ HasFieldError(validationErrors', f) <=> ~r.isValid
                   /\ \A k \in 1..Len(validationErrors') :
                          validationErrors'[k].field = f
                              => validationErrors'[k].message = r.errorMessage
                   /\ fieldStates'[f].touched
                   /\ \A g \in FieldSet \ {f} :
                          /\ formData'[g] = formData[g]
                          /\ ErrorsOf(validationErrors', g)
                                 = ErrorsOf(validationErrors, g) ]_vars

\* A valid name was typed while the e-mail field holds an error and the
\* industry was never touched.
C8_Witness ==
    /\ lastOp = Op("input", "name")
    /\ validateField("name", formData.name).isValid
    /\ ~HasFieldError(validationErrors, "name")
    /\ HasFieldError(validationErrors, "email")
    /\ ~fieldStates["industry"].touched

\* C9: at most one 'send-confirmation' call is in flight, the submit control
\* is disabled (isSubmitting) while it is, and a run of handleSubmit starts
\* only with no call in flight.
C9_AtMostOneCallInFlight ==
    /\ [](Len(inFlight) <= 1 /\ (Len(inFlight) = 1 => isSubmitting))
    /\ [][ IsSubmitStep
               => /\ ~isSubmitting
                  /\ Len(validationErrors) = 0
                  /\ Len(inFlight) = 0 ]_vars

\* The user edited a field while the call was in flight.
C9_Witness ==
    /\ Len(inFlight) = 1
    /\ lastOp.op = "input"
    /\ Len(validationErrors) = 0
    /\ formData # inFlight[1].closure

\* C10: isSubmitting is true exactly while a call is in flight, each of the
\* three outcomes sets it back to false, and, the call completing, a form
\* that is submitting is eventually not submitting any more.
C10_SubmittingEnds ==
    /\ [](isSubmitting <=> Len(inFlight) > 0)
    /\ [][ lastOp'.op \in {"ok", "error", "throw"} => ~isSubmitting' ]_vars
    /\ isSubmitting ~> ~isSubmitting

C10_Witness ==
    /\ lastOp.op = "error"
    /\ ~isSubmitting
    /\ Len(inFlight) = 0
    /\ validSubmits = 2

\* C11: the lead appended by a successful submission carries the name, email
\* and industry of the body sent with that submission's call, whatever the
\* user typed while the call was in flight, and the form is reset, so those
\* edits are discarded.
C11_LeadMatchesSentBody ==
    [][ lastOp'.op = "ok"
            => /\ \E i \in 1..Len(inFlight) :
                      /\ inFlight' = RemoveAt(inFlight, i)
                      /\ Len(sessionLeads') > 0
                      /\ LET lead == sessionLeads'[Len(sessionLeads')]
                             sent == inFlight[i].body
                         IN  /\ lead.name = sent.name
                             /\ lead.email = sent.email
                             /\ lead.industry = sent.industry
               /\ formData' = EmptyForm ]_vars

\* The call returned without error after the user had changed the form.
C11_Witness ==
    /\ lastOp.op = "ok"
    /\ lastOp.edited
    /\ formData = EmptyForm
    /\ Len(sessionLeads) > 0
    /\ validateLeadForm(sessionLeads[Len(sessionLeads)]) = <<>>

\* C12: whenever the success view is shown the store holds at least one lead
\* and the position the view displays is the number of successful
\* submissions since page load.
C12_PositionIsSuccessCount ==
    submitted => /\ Len(sessionLeads) >= 1
                 /\ DisplayedPosition = successes

\* The success view of the second submission, after a resetForm in between.
C12_Witness ==
    /\ submitted
    /\ DisplayedPosition = 2
    /\ validSubmits = 2
    /\ isSubmitting = FALSE

\* C13: validationErrors holds at most one entry per field; handleInputChange
\* on a field that has an entry and stays invalid rewrites that entry where it
\* is, adding none; and a successful submission or resetForm leaves
\* validationErrors empty and every field empty and untouched.
C13_OneErrorPerField ==
    /\ [](\A f \in FieldSet : Len(ErrorsOf(validationErrors, f)) <= 1)
    /\ [][ ( /\ lastOp'.op = "input"
             /\ HasFieldError(validationErrors, lastOp'.field)
             /\ HasFieldError(validationErrors', lastOp'.field) )
               => /\ Len(validationErrors') = Len(validationErrors)
                  /\ \A k \in 1..Len(validationErrors) :
                         validationErrors'[k].field = validationErrors[k].field
         ]_vars
    /\ [][ lastOp'.op \in {"ok", "reset"}
               => /\ validationErrors' = <<>>
                  /\ formData' = EmptyForm
                  /\ fieldStates' = Untouched ]_vars

\* After a submission of the empty form gave three errors, a one-letter name
\* was typed: the name's entry is still the first of three, with the new
\* message.
C13_Witness ==
    /\ lastOp = Op("input", "name")
    /\ Len(validationErrors) = 3
    /\ validationErrors[1] = Error("name", "Name must be at least 2 characters")
    /\ HasFieldError(validationErrors, "email")
    /\ HasFieldError(validationErrors, "industry")

====
